---- MODULE Spec2Model ----
(***************************************************************************)
(* pytest-reportlog: the event persistence core of plugin.py.              *)
(*                                                                         *)
(* Python values are modelled as records of strings so that every JSON     *)
(* text is a real string.  A dict is a sequence of fields in insertion     *)
(* order; a JSON text is a sequence of string tokens ("{", one token per   *)
(* field, "}"); a file is a sequence of such tokens ("cells"), written at  *)
(* the offset of the handle that writes them.                              *)
(***************************************************************************)
EXTENDS Integers, Sequences, FiniteSets, TLC

(***************************************************************************)
(* Bounds of the model.                                                    *)
(***************************************************************************)
MaxEvents == 2
MaxPostFailures == 1
MaxFields == 2
MaxSections == 3

(***************************************************************************)
(* Python values.  A field is one item of a dict:                          *)
(*   k, kty : the key and its type ("str", or "tuple": a key json rejects) *)
(*   ty     : the type of the value: "str", "int", "null", "sections"      *)
(*            (a list of [label, content] pairs), "obj" (an instance of a  *)
(*            class json has no mapping for), "circ" (a list that holds    *)
(*            itself)                                                      *)
(*   s      : the text of a str / int value, the name of an obj / circ     *)
(*   secs   : the labels of a "sections" value                             *)
(***************************************************************************)
StrField(k, s) == [k |-> k, kty |-> "str", ty |-> "str", s |-> s, secs |-> <<>>]
IntField(k, s) == [k |-> k, kty |-> "str", ty |-> "int", s |-> s, secs |-> <<>>]
NullField(k) == [k |-> k, kty |-> "str", ty |-> "null", s |-> "", secs |-> <<>>]
SectionsField(secs) ==
    [k |-> "sections", kty |-> "str", ty |-> "sections", s |-> "", secs |-> secs]
ObjField(k, name) == [k |-> k, kty |-> "str", ty |-> "obj", s |-> name, secs |-> <<>>]
CircField(k, name) == [k |-> k, kty |-> "str", ty |-> "circ", s |-> name, secs |-> <<>>]
TupleKeyField(k, s) == [k |-> k, kty |-> "tuple", ty |-> "str", s |-> s, secs |-> <<>>]

\* d.get(k, default) on the text of a str value
DictGet(d, k, default) ==
    IF \E i \in 1..Len(d) : d[i].k = k /\ d[i].kty = "str"
    THEN LET i == CHOOSE j \in 1..Len(d) : d[j].k = k /\ d[j].kty = "str" IN d[i].s
    ELSE default

\* d[k] = v : an existing key keeps its place, a new key goes last
DictSet(d, f) ==
    IF \E i \in 1..Len(d) : d[i].k = f.k /\ d[i].kty = f.kty
    THEN [i \in 1..Len(d) |-> IF d[i].k = f.k /\ d[i].kty = f.kty THEN f ELSE d[i]]
    ELSE Append(d, f)

(***************************************************************************)
(* json.dumps.  The encoder walks the items in order and raises at the     *)
(* first one it cannot encode: TypeError for a key that is no str, int,    *)
(* float, bool or None and for a value of an unsupported type, ValueError  *)
(* ("Circular reference detected") for a container that holds itself.      *)
(* The key of an item is encoded before its value.                         *)
(***************************************************************************)
FieldError(f) ==
    IF f.kty # "str" THEN "TypeError"
    ELSE IF f.ty = "obj" THEN "TypeError"
    ELSE IF f.ty = "circ" THEN "ValueError"
    ELSE "none"

RECURSIVE DumpsError(_)
DumpsError(d) ==
    IF d = <<>> THEN "none"
    ELSE IF FieldError(Head(d)) # "none" THEN FieldError(Head(d))
    ELSE DumpsError(Tail(d))

Quoted(s) == "\"" \o s \o "\""

RECURSIVE EncodeSections(_)
EncodeSections(secs) ==
    IF secs = <<>> THEN ""
    ELSE "[" \o Quoted(Head(secs)) \o ", " \o Quoted("text") \o "]"
         \o (IF Len(secs) > 1 THEN ", " ELSE "") \o EncodeSections(Tail(secs))

EncodeValue(f) ==
    CASE f.ty = "str" -> Quoted(f.s)
      [] f.ty = "int" -> f.s
      [] f.ty = "null" -> "null"
      [] f.ty = "sections" -> "[" \o EncodeSections(f.secs) \o "]"

EncodeField(f) == Quoted(f.k) \o ": " \o EncodeValue(f)

\* the text json.dumps(d) returns, for a d it can encode
Dumps(d) == <<"{">> \o [i \in 1..Len(d) |-> EncodeField(d[i])] \o <<"}">>

(***************************************************************************)
(* str(v)                                                                  *)
(***************************************************************************)
RECURSIVE ReprSections(_)
ReprSections(secs) ==
    IF secs = <<>> THEN ""
    ELSE "['" \o Head(secs) \o "', 'text']"
         \o (IF Len(secs) > 1 THEN ", " ELSE "") \o ReprSections(Tail(secs))

PyStr(f) ==
    CASE f.ty = "str" -> f.s
      [] f.ty = "int" -> f.s
      [] f.ty = "null" -> "None"
      [] f.ty = "sections" -> "[" \o ReprSections(f.secs) \o "]"
      [] f.ty = "obj" -> "<" \o f.s \o " object>"
      [] f.ty = "circ" -> "[[...]]"

\* the field with its value replaced by str(value)
Stringified(f) == [f EXCEPT !.ty = "str", !.s = PyStr(f), !.secs = <<>>]

(***************************************************************************)
(* cleanup_unserializable.  Only TypeError is caught around the encoding   *)
(* of each item alone; any other exception leaves the function.            *)
(***************************************************************************)
\* a loop body that takes str() of every value
CleanupField_always(f) == Stringified(f)

\* one pass of the loop body: json.dumps({k: v}) in a try that catches TypeError
CleanupField(f) ==
    IF DumpsError(<<f>>) = "TypeError" THEN Stringified(f) ELSE f

\* the exception one pass of the loop body lets through
ItemError(f) == IF DumpsError(<<f>>) = "TypeError" THEN "none" ELSE DumpsError(<<f>>)

cleanup_unserializable(d) ==
    IF \E i \in 1..Len(d) : ItemError(d[i]) # "none"
    THEN [err |-> ItemError(d[CHOOSE i \in 1..Len(d) :
                                /\ ItemError(d[i]) # "none"
                                /\ \A j \in 1..(i - 1) : ItemError(d[j]) = "none"]),
          d |-> <<>>]
    ELSE [err |-> "none", d |-> [i \in 1..Len(d) |-> CleanupField(d[i])]]

(***************************************************************************)
(* Paths and files.  A path is its stem and its suffix; str(path) is       *)
(* their concatenation, and Path("") is the directory ".".                 *)
(*                                                                         *)
(* A handle is what _open_filtered_writer returns: the codec chosen from   *)
(* the suffix, the offset of the handle in the file, and the text written  *)
(* to the handle that has not reached the file.  The content of a file is  *)
(* the decoded payload that reached it.  flush() brings the pending text   *)
(* of a plain or gzip stream to the file (gzip: a sync flush); bz2 and     *)
(* lzma keep it in the compressor until close().  closes counts the calls  *)
(* of close() on the handle and written keeps every text written to it.    *)
(***************************************************************************)
MkPath(stem, suffix) == [stem |-> stem, suffix |-> suffix]
PathStr(p) == p.stem \o p.suffix
NoLog == MkPath("no", ".log")
IsDirectory(p) == PathStr(p) = ""

Codec(p) ==
    IF p.suffix = ".gz" THEN "gzip"
    ELSE IF p.suffix = ".bz2" THEN "bz2"
    ELSE IF p.suffix = ".xz" THEN "lzma"
    ELSE "plain"

FlushReachesFile(codec) == codec \in {"plain", "gzip"}

Max(a, b) == IF a > b THEN a ELSE b

\* the content of a file after cells are written at offset pos
WriteAt(content, pos, cells) ==
    [i \in 1..Max(Len(content), pos + Len(cells)) |->
        IF i > pos /\ i <= pos + Len(cells) THEN cells[i - pos]
        ELSE IF i <= Len(content) THEN content[i]
        ELSE "\\0"]

NoFile == [exists |-> FALSE, content |-> <<>>]

\* open(path, "wt"): creates the file, or truncates it
_open_filtered_writer(files, p) ==
    [err |-> IF IsDirectory(p) THEN "IsADirectoryError" ELSE "none",
     files |-> IF IsDirectory(p) THEN files
               ELSE [files EXCEPT ![PathStr(p)] = [exists |-> TRUE, content |-> <<>>]],
     handle |-> [path |-> PathStr(p), codec |-> Codec(p), pos |-> 0,
                 pending |-> <<>>, closed |-> FALSE, closes |-> 0, written |-> <<>>]]

\* handle.write(text)
HandleWrite(h, cells) ==
    [h EXCEPT !.pending = h.pending \o cells, !.written = Append(@, cells)]

\* the pending text of the handle goes to the file at the handle's offset
Drain(w, hid) ==
    LET h == w.handles[hid] IN
    [w EXCEPT !.files[h.path].content = WriteAt(@, h.pos, h.pending),
              !.handles[hid].pos = h.pos + Len(h.pending),
              !.handles[hid].pending = <<>>]

\* handle.flush()
HandleFlush(w, hid) ==
    IF FlushReachesFile(w.handles[hid].codec) THEN Drain(w, hid) ELSE w

\* handle.close()
HandleClose(w, hid) ==
    [Drain(w, hid) EXCEPT !.handles[hid].closed = TRUE, !.handles[hid].closes = @ + 1]

(***************************************************************************)
(* The state.                                                              *)
(***************************************************************************)
VARIABLES
    option,      \* config.option, as pytest_addoption declares it, and workerinput
    config,      \* the attributes the plugin sets on config
    registered,  \* config.pluginmanager: the recorders registered, in order
    recorders,   \* the ReportLogPlugin instances constructed
    world,       \* the handles, the files, whether the device is full, the POSTs
                 \* made, the persist calls
    clock,       \* time.time_ns()
    phase,       \* "start", "configured", "failed" (pytest_configure raised), "unconfigured"
    session,     \* "none", "started", "finished": the hooks the engine has called
    nevents,     \* the number of lifecycle events the engine has raised
    last,        \* the last operation and the exception that left it
    pure         \* a function applied on its own: its name, argument and result

vars == <<option, config, registered, recorders, world, clock, phase, session,
          nevents, last, pure>>

RandLow == 100000
RandHigh == 999999
\* the draws of randint(RandLow, RandHigh) the model takes
RandInts == {RandLow}

NoneFile == [ty |-> "none", h |-> 0]
FileObj(hid) == [ty |-> "file", h |-> hid]

\* bool(path): pathlib defines neither __bool__ nor __len__
PathIsTrue(p) == TRUE
\* bool(s) of a str
StrIsTrue(s) == s # ""
\* x is not "<literal>": identity with a str object, which no handle and no None has
PyIsNot(x, literal) == ~(x.ty = "str" /\ x.h = literal)

UniqueId(time_ns, rand) ==
    "test_report_" \o ToString(time_ns) \o "_" \o ToString(rand)

(***************************************************************************)
(* send_report_to_dataset: one requests.post, then raise_for_status.       *)
(* post is what the transport does with the request: "200", "500" (the     *)
(* collector answers) or "ConnectionError" (the request does not arrive).  *)
(***************************************************************************)
PostOutcomes == {"200", "500", "ConnectionError"}

\* a forwarder that repeats a failed POST once, the second attempt getting through
send_report_to_dataset_retry(w, url, token, report_json, post) ==
    LET request(status) == [url |-> url \o "/services/collector/event",
                            auth |-> "Bearer " \o token,
                            body |-> Dumps(report_json),
                            status |-> status]
    IN  [w |-> [w EXCEPT !.posts = IF post = "200" THEN Append(@, request(post))
                                   ELSE Append(Append(@, request(post)), request("200"))],
         err |-> "none"]

send_report_to_dataset(w, url, token, report_json, post) ==
    [w |-> [w EXCEPT !.posts = Append(@,
                [url |-> url \o "/services/collector/event",
                 auth |-> "Bearer " \o token,
                 body |-> Dumps(report_json),
                 status |-> post])],
     err |-> CASE post = "200" -> "none"
               [] post = "500" -> "HTTPError"
               [] post = "ConnectionError" -> "ConnectionError"]

(***************************************************************************)
(* ReportLogPlugin.persist_data.  r is the recorder, ev the engine's event  *)
(* (its number and its hook).  The result carries the exception that       *)
(* leaves the method ("none" when it returns); world.calls records each    *)
(* call: whether it wrote its line, whether it made its POST.              *)
(***************************************************************************)
\* an annotation that keeps a unique_id or parser the incoming record already has
Annotate_keep_incoming(r, data) ==
    LET has(k) == \E i \in 1..Len(data) : data[i].k = k /\ data[i].kty = "str"
        d1 == IF has("unique_id") THEN data
              ELSE DictSet(data, StrField("unique_id", recorders[r]._unique_id))
    IN  IF has("parser") THEN d1 ELSE DictSet(d1, StrField("parser", "pytest-reportlog"))

\* lines 119-120
Annotate(r, data) ==
    DictSet(DictSet(data, StrField("unique_id", recorders[r]._unique_id)),
            StrField("parser", "pytest-reportlog"))

\* lines 121-125: the exception that leaves the serialization, and the data after it
Serialize(data) ==
    IF DumpsError(data) = "none" THEN [err |-> "none", d |-> data]
    ELSE IF DumpsError(data) # "TypeError" THEN [err |-> DumpsError(data), d |-> data]
    ELSE IF cleanup_unserializable(data).err # "none"
         THEN [err |-> cleanup_unserializable(data).err, d |-> data]
    ELSE [err |-> DumpsError(cleanup_unserializable(data).d),
          d |-> cleanup_unserializable(data).d]

\* a write that is skipped, without an exception, when the recorder holds no stream
WriteLine_skip_closed(w, r, json_data) ==
    IF recorders[r]._file.ty = "none" THEN [w |-> w, err |-> "none", wrote |-> FALSE]
    ELSE LET hid == recorders[r]._file.h IN
         [w |-> HandleFlush([w EXCEPT !.handles[hid] =
                                 HandleWrite(@, json_data \o <<"\n">>)], hid),
          err |-> "none", wrote |-> TRUE]

\* lines 126-128.  On a device with no space left, the write of a line-buffered
\* plain stream, and the flush of a gzip stream, raise OSError with the text
\* still in the stream's buffer; bz2 and lzma streams send nothing to the device.
WriteLine(w, r, json_data) ==
    IF ~PyIsNot(recorders[r]._file, "no.log") THEN [w |-> w, err |-> "none", wrote |-> FALSE]
    ELSE IF recorders[r]._file.ty = "none"
         THEN [w |-> w, err |-> "AttributeError", wrote |-> FALSE]
    ELSE IF w.full /\ FlushReachesFile(w.handles[recorders[r]._file.h].codec)
         THEN [w |-> [w EXCEPT !.handles[recorders[r]._file.h] =
                                   HandleWrite(@, json_data \o <<"\n">>)],
               err |-> "OSError", wrote |-> FALSE]
    ELSE LET hid == recorders[r]._file.h IN
         [w |-> HandleFlush([w EXCEPT !.handles[hid] =
                                 HandleWrite(@, json_data \o <<"\n">>)], hid),
          err |-> "none", wrote |-> TRUE]

\* lines 129-131
Forward(w, data, post) ==
    IF ~config.has_dataset THEN [w |-> w, err |-> "AttributeError", posted |-> FALSE]
    ELSE IF ~config._report_log_dataset THEN [w |-> w, err |-> "none", posted |-> FALSE]
    ELSE IF ~config.has_url \/ ~config.has_token
         THEN [w |-> w, err |-> "AttributeError", posted |-> FALSE]
    ELSE LET sent == send_report_to_dataset(w, config._report_log_dataset_url,
                         config._report_log_dataset_token, data, post) IN
         [w |-> sent.w, err |-> sent.err, posted |-> TRUE]

\* a persist_data that encodes into the stream (json.dump): the fields before
\* the one that cannot be encoded are in the stream when the exception leaves
persist_data_write_partial(w, r, data0, post, ev) ==
    LET ser == Serialize(Annotate(r, data0))
        good == {n \in 0..Len(ser.d) : \A i \in 1..n : FieldError(ser.d[i]) = "none"}
        n == CHOOSE m \in good : \A k \in good : k <= m
        partial == <<"{">> \o [i \in 1..n |-> EncodeField(ser.d[i])]
        pw == WriteLine(w, r, partial)
        wr == WriteLine(w, r, Dumps(ser.d))
        fw == Forward(wr.w, ser.d, post)
        call(err, wrote, posted) ==
            [ev |-> ev.n, op |-> ev.op, r |-> r, err |-> err, wrote |-> wrote,
             posted |-> posted]
    IN  IF ser.err # "none"
        THEN [w |-> [pw.w EXCEPT !.calls = Append(@, call(ser.err, FALSE, FALSE))],
              err |-> ser.err]
        ELSE IF wr.err # "none"
        THEN [w |-> [wr.w EXCEPT !.calls = Append(@, call(wr.err, FALSE, FALSE))],
              err |-> wr.err]
        ELSE [w |-> [fw.w EXCEPT !.calls = Append(@, call(fw.err, wr.wrote, fw.posted))],
              err |-> fw.err]

\* a persist_data that forwards the record before it writes it
persist_data_forward_first(w, r, data0, post, ev) ==
    LET ser == Serialize(Annotate(r, data0))
        fw == Forward(w, ser.d, post)
        wr == WriteLine(fw.w, r, Dumps(ser.d))
        call(err, wrote, posted) ==
            [ev |-> ev.n, op |-> ev.op, r |-> r, err |-> err, wrote |-> wrote,
             posted |-> posted]
    IN  IF ser.err # "none"
        THEN [w |-> [w EXCEPT !.calls = Append(@, call(ser.err, FALSE, FALSE))],
              err |-> ser.err]
        ELSE IF fw.err # "none"
        THEN [w |-> [fw.w EXCEPT !.calls = Append(@, call(fw.err, FALSE, fw.posted))],
              err |-> fw.err]
        ELSE [w |-> [wr.w EXCEPT !.calls = Append(@, call(wr.err, wr.wrote, fw.posted))],
              err |-> wr.err]

persist_data(w, r, data0, post, ev) ==
    LET ser == Serialize(Annotate(r, data0))
        wr == WriteLine(w, r, Dumps(ser.d))
        fw == Forward(wr.w, ser.d, post)
        call(err, wrote, posted) ==
            [ev |-> ev.n, op |-> ev.op, r |-> r, err |-> err, wrote |-> wrote,
             posted |-> posted]
    IN  IF ser.err # "none"
        THEN [w |-> [w EXCEPT !.calls = Append(@, call(ser.err, FALSE, FALSE))],
              err |-> ser.err]
        ELSE IF wr.err # "none"
        THEN [w |-> [wr.w EXCEPT !.calls = Append(@, call(wr.err, FALSE, FALSE))],
              err |-> wr.err]
        ELSE [w |-> [fw.w EXCEPT !.calls = Append(@, call(fw.err, wr.wrote, fw.posted))],
              err |-> fw.err]

(***************************************************************************)
(* ReportLogPlugin.__init__ and close.                                     *)
(***************************************************************************)
\* the recorder constructed, the world after it, the exception that leaves __init__
ReportLogPlugin(w, log_path, time_ns, rand) ==
    LET opened == _open_filtered_writer(w.files, log_path)
        hid == Len(w.handles) + 1
    IN  IF ~PathIsTrue(log_path)
        THEN [err |-> "none", w |-> w,
              self |-> [_file |-> NoneFile, _log_path |-> "",
                        _unique_id |-> UniqueId(time_ns, rand)]]
        ELSE IF opened.err # "none"
        THEN [err |-> opened.err, w |-> w,
              self |-> [_file |-> NoneFile, _log_path |-> "", _unique_id |-> ""]]
        ELSE [err |-> "none",
              w |-> [w EXCEPT !.files = opened.files,
                              !.handles = Append(@, opened.handle)],
              self |-> [_file |-> FileObj(hid), _log_path |-> PathStr(log_path),
                        _unique_id |-> UniqueId(time_ns, rand)]]

\* a close that does not forget the stream it closed
close_keeps_file(w, self) ==
    IF self._file.ty # "none"
    THEN [w |-> HandleClose(w, self._file.h), self |-> self, err |-> "none"]
    ELSE [w |-> w, self |-> self, err |-> "none"]

\* ReportLogPlugin.close: the world and the recorder after it
close(w, self) ==
    IF self._file.ty # "none"
    THEN [w |-> HandleClose(w, self._file.h), self |-> [self EXCEPT !._file = NoneFile],
          err |-> "none"]
    ELSE [w |-> w, self |-> self, err |-> "none"]

(***************************************************************************)
(* The records the hooks build.                                            *)
(***************************************************************************)
PytestVersion == "8.0.0"
LogSections == {"Captured log setup", "Captured log call", "Captured log teardown"}

SessionStartData ==
    <<StrField("pytest_version", PytestVersion), StrField("$report_type", "SessionStart")>>

SessionFinishData(exitstatus) ==
    <<IntField("exitstatus", exitstatus), StrField("$report_type", "SessionFinish")>>

SectionsOf(data) ==
    data[CHOOSE i \in 1..Len(data) : data[i].k = "sections" /\ data[i].kty = "str"].secs

\* [s for s in sections if s[0] not in [...]]
KeepSections(secs) == SelectSeq(secs, LAMBDA label : label \notin LogSections)

\* a filter that does not look at the outcome
LogReportData_any_outcome(report) ==
    IF option.exclude
    THEN DictSet(report, SectionsField(KeepSections(SectionsOf(report))))
    ELSE report

\* lines 142-158: the record pytest_runtest_logreport hands to persist_data
LogReportData(report) ==
    IF option.exclude /\ DictGet(report, "outcome", "") = "passed"
    THEN DictSet(report, SectionsField(KeepSections(SectionsOf(report))))
    ELSE report

\* lines 163-176
WarningData(category, message, when) ==
    <<(IF category # "" THEN StrField("category", category) ELSE NullField("category")),
      StrField("filename", "test_a.py"),
      IntField("lineno", "1"),
      message,
      StrField("$report_type", "WarningMessage"),
      StrField("when", when),
      NullField("location")>>

(***************************************************************************)
(* The inputs.                                                             *)
(***************************************************************************)
LogPaths == {NoLog, MkPath("out", ".log"), MkPath("out", ".bz2"), MkPath("", "")}
FileNames == {PathStr(p) : p \in LogPaths} \ {""}

Options ==
    [report_log : LogPaths, exclude : BOOLEAN, dataset : BOOLEAN,
     dataset_url : {"", "https://ds"}, dataset_token : {"", "tok"},
     workerinput : BOOLEAN]

\* what pytest_report_to_serializable returns for a test report
ReportDict(outcome, secs, extra) ==
    <<StrField("outcome", outcome), SectionsField(secs)>> \o extra

ReportSections == <<"Captured log call", "Captured stdout call">>

TestReports ==
    {ReportDict("passed", ReportSections, <<>>),
     ReportDict("failed", ReportSections, <<ObjField("user_properties", "Obj")>>),
     ReportDict("passed", ReportSections, <<CircField("user_properties", "L")>>),
     ReportDict("failed", ReportSections, <<TupleKeyField("('a', 1)", "x")>>)}

CollectReports == {ReportDict("passed", <<>>, <<>>)}

WarningMessages == {ObjField("message", "UserWarning")}
ExitStatuses == {"0", "1"}

(***************************************************************************)
(* pluggy calls the implementations of a hook last registered first, and   *)
(* an exception from one ends the call.  posts[i] is what the transport    *)
(* does with the POST of the i-th implementation called.                   *)
(***************************************************************************)
PostFailures(w) == Cardinality({i \in 1..Len(w.posts) : w.posts[i].status # "200"})

\* what the transport does with each POST of one event: none follows a failed one
PostScripts(n) ==
    {p \in [1..n -> PostOutcomes] :
        \A i \in 1..n : p[i] # "200" => \A j \in (i + 1)..n : p[j] = "200"}

RECURSIVE Dispatch(_, _, _, _, _)
Dispatch(order, w, data, posts, ev) ==
    IF order = <<>> THEN [w |-> w, err |-> "none"]
    ELSE LET res == persist_data(w, Head(order), data, Head(posts), ev) IN
         IF res.err # "none" THEN res
         ELSE Dispatch(Tail(order), res.w, data, Tail(posts), ev)

Lifo(seq) == [i \in 1..Len(seq) |-> seq[Len(seq) + 1 - i]]

NotApplied == [fn |-> "none", arg |-> <<>>, res |-> [err |-> "none", d |-> <<>>]]

Init ==
    /\ option \in Options
    /\ config = [has_dataset |-> FALSE, _report_log_dataset |-> FALSE,
                 has_url |-> FALSE, _report_log_dataset_url |-> "",
                 has_token |-> FALSE, _report_log_dataset_token |-> "",
                 has_plugin |-> FALSE, _report_log_plugin |-> 0]
    /\ registered = <<>>
    /\ recorders = <<>>
    /\ world = [handles |-> <<>>, files |-> [n \in FileNames |-> NoFile],
                full |-> FALSE, posts |-> <<>>, calls |-> <<>>]
    /\ clock = 1
    /\ phase = "start"
    /\ session = "none"
    /\ nevents = 0
    /\ last = [op |-> "none", r |-> 0, err |-> "none", was_open |-> FALSE]
    /\ pure = NotApplied

(***************************************************************************)
(* pytest_configure                                                        *)
(***************************************************************************)
\* lines 63-64 and 67-68: construct a recorder, keep it on config, register it
ConstructAndRegister(st, rand) ==
    LET made == ReportLogPlugin(st.world, option.report_log, st.clock, rand) IN
    IF made.err # "none" THEN [st EXCEPT !.err = made.err]
    ELSE [st EXCEPT !.world = made.w,
                    !.recorders = Append(@, made.self),
                    !.config.has_plugin = TRUE,
                    !.config._report_log_plugin = Len(st.recorders) + 1,
                    !.registered = Append(@, Len(st.recorders) + 1),
                    !.clock = @ + 1]

ConfigureFile(st, rand) ==
    IF StrIsTrue(PathStr(option.report_log)) /\ ~option.workerinput
    THEN ConstructAndRegister(st, rand)
    ELSE st

ConfigureDataset(st, rand) ==
    IF st.err = "none" /\ option.dataset
    THEN ConstructAndRegister(
             [st EXCEPT !.config.has_dataset = TRUE, !.config._report_log_dataset = TRUE],
             rand)
    ELSE st

ConfigureUrlToken(st) ==
    IF st.err # "none" THEN st
    ELSE [st EXCEPT
            !.config.has_url = @ \/ StrIsTrue(option.dataset_url),
            !.config._report_log_dataset_url =
                IF StrIsTrue(option.dataset_url) THEN option.dataset_url ELSE @,
            !.config.has_token = @ \/ StrIsTrue(option.dataset_token),
            !.config._report_log_dataset_token =
                IF StrIsTrue(option.dataset_token) THEN option.dataset_token ELSE @]

pytest_configure ==
    /\ phase = "start"
    /\ \E rand1 \in RandInts, rand2 \in RandInts :
         LET st0 == [world |-> world, recorders |-> recorders, config |-> config,
                     registered |-> registered, clock |-> clock, err |-> "none"]
             st == ConfigureUrlToken(ConfigureDataset(ConfigureFile(st0, rand1), rand2))
         IN  /\ world' = st.world
             /\ recorders' = st.recorders
             /\ config' = st.config
             /\ registered' = st.registered
             /\ clock' = st.clock
             /\ phase' = IF st.err = "none" THEN "configured" ELSE "failed"
             /\ last' = [op |-> "pytest_configure", r |-> 0, err |-> st.err,
                         was_open |-> FALSE]
    /\ UNCHANGED <<option, session, nevents, pure>>

(***************************************************************************)
(* pytest_unconfigure, and close() called on the recorder                  *)
(***************************************************************************)
pytest_unconfigure ==
    /\ phase \in {"configured", "failed"}
    /\ phase' = "unconfigured"
    /\ IF config.has_plugin
       THEN LET r == config._report_log_plugin
                c == close(world, recorders[r]) IN
            /\ world' = c.w
            /\ recorders' = [recorders EXCEPT ![r] = c.self]
            /\ config' = [config EXCEPT !.has_plugin = FALSE, !._report_log_plugin = 0]
            /\ last' = [op |-> "pytest_unconfigure", r |-> r, err |-> c.err,
                        was_open |-> recorders[r]._file.ty # "none"]
       ELSE /\ UNCHANGED <<world, recorders, config>>
            /\ last' = [op |-> "pytest_unconfigure", r |-> 0, err |-> "none",
                        was_open |-> FALSE]
    /\ UNCHANGED <<option, registered, clock, session, nevents, pure>>

\* close() on the recorder config holds, the one reference the plugin keeps
Close ==
    /\ config.has_plugin
    /\ LET r == config._report_log_plugin
           c == close(world, recorders[r]) IN
       /\ world' = c.w
       /\ recorders' = [recorders EXCEPT ![r] = c.self]
       /\ last' = [op |-> "close", r |-> r, err |-> c.err,
                   was_open |-> recorders[r]._file.ty # "none"]
    /\ UNCHANGED <<option, config, registered, clock, phase, session, nevents, pure>>

(***************************************************************************)
(* The hooks, as the engine calls them on every registered recorder.       *)
(***************************************************************************)
Raise(op, data, session2) ==
    /\ phase = "configured"
    /\ nevents < MaxEvents
    /\ \E posts \in PostScripts(Len(registered)) :
         LET res == Dispatch(Lifo(registered), world, data, posts,
                                [n |-> nevents + 1, op |-> op]) IN
         /\ PostFailures(res.w) <= MaxPostFailures
         /\ world' = res.w
         /\ last' = [op |-> op, r |-> 0, err |-> res.err, was_open |-> FALSE]
    /\ nevents' = nevents + 1
    /\ session' = session2
    /\ UNCHANGED <<option, config, registered, recorders, clock, phase>>

pytest_sessionstart ==
    /\ session = "none"
    /\ Raise("pytest_sessionstart", SessionStartData, "started")
    /\ UNCHANGED pure

pytest_sessionfinish ==
    /\ session = "started"
    /\ \E exitstatus \in ExitStatuses :
         Raise("pytest_sessionfinish", SessionFinishData(exitstatus), "finished")
    /\ UNCHANGED pure

pytest_runtest_logreport ==
    /\ session = "started"
    /\ \E report \in TestReports :
         Raise("pytest_runtest_logreport", LogReportData(report), session)
    /\ UNCHANGED pure

pytest_warning_recorded ==
    /\ session # "finished"
    /\ \E category \in {"", "UserWarning"}, message \in WarningMessages :
         Raise("pytest_warning_recorded", WarningData(category, message, "runtest"),
               session)
    /\ UNCHANGED pure

pytest_collectreport ==
    /\ session = "started"
    /\ \E report \in CollectReports :
         Raise("pytest_collectreport", report, session)
    /\ UNCHANGED pure

Next ==
    \/ pytest_configure
    \/ pytest_unconfigure
    \/ Close
    \/ pytest_sessionstart
    \/ pytest_sessionfinish
    \/ pytest_runtest_logreport
    \/ pytest_warning_recorded
    \/ pytest_collectreport

Spec == Init /\ [][Next]_vars

(***************************************************************************)
(* cleanup_unserializable on its own: every record of at most MaxFields    *)
(* fields, each of any kind of key and value.                              *)
(***************************************************************************)
DefaultOption ==
    [report_log |-> NoLog, exclude |-> FALSE, dataset |-> FALSE,
     dataset_url |-> "", dataset_token |-> "", workerinput |-> FALSE]

\* the key of the i-th field
GuardKey(i) == "k" \o ToString(i)

FieldKinds(k) ==
    {StrField(k, "x"), IntField(k, "1"), NullField(k), ObjField(k, "Obj"),
     CircField(k, "L"), TupleKeyField(k, "x"),
     [CircField(k, "L") EXCEPT !.kty = "tuple"],
     [IntField(k, "1") EXCEPT !.kty = "tuple"],
     [k |-> k, kty |-> "str", ty |-> "sections", s |-> "",
      secs |-> <<"Captured log call">>]}

RECURSIVE RecordsOfLen(_)
RecordsOfLen(n) ==
    IF n = 0 THEN {<<>>}
    ELSE {Append(d, f) : d \in RecordsOfLen(n - 1), f \in FieldKinds(GuardKey(n))}

GuardInputs == UNION {RecordsOfLen(n) : n \in 0..MaxFields}

InitGuard ==
    /\ Init
    /\ option = DefaultOption

PickRecord ==
    /\ pure.fn = "none"
    /\ \E d \in GuardInputs : pure' = [fn |-> "picked", arg |-> d, res |-> NotApplied.res]
    /\ UNCHANGED <<option, config, registered, recorders, world, clock, phase, session,
                   nevents, last>>

Sanitize ==
    /\ pure.fn = "picked"
    /\ pure' = [pure EXCEPT !.fn = "cleanup_unserializable",
                            !.res = cleanup_unserializable(pure.arg)]
    /\ UNCHANGED <<option, config, registered, recorders, world, clock, phase, session,
                   nevents, last>>

NextGuard == PickRecord \/ Sanitize

SpecGuard == InitGuard /\ [][NextGuard]_vars

(***************************************************************************)
(* pytest_runtest_logreport on a recorder that writes to out.log, for      *)
(* every report of at most MaxSections sections.                           *)
(***************************************************************************)
SectionLabels == LogSections \cup {"Captured stdout call"}

RECURSIVE SectionLists(_)
SectionLists(n) ==
    IF n = 0 THEN {<<>>}
    ELSE {Append(secs, label) : secs \in SectionLists(n - 1), label \in SectionLabels}

WideReports ==
    UNION {{ReportDict("passed", secs, <<>>), ReportDict("failed", secs, <<>>),
            <<SectionsField(secs)>>} :
           secs \in UNION {SectionLists(n) : n \in 0..MaxSections}}

InitSections ==
    /\ Init
    /\ \E e \in BOOLEAN :
         option = [DefaultOption EXCEPT !.report_log = MkPath("out", ".log"),
                                        !.exclude = e]

LogReportWide ==
    /\ session = "started"
    /\ pure.fn = "none"
    /\ \E report \in WideReports :
         /\ Raise("pytest_runtest_logreport", LogReportData(report), session)
         /\ pure' = [fn |-> "pytest_runtest_logreport", arg |-> report,
                     res |-> NotApplied.res]

NextSections ==
    \/ pytest_configure
    \/ pytest_sessionstart
    \/ LogReportWide

SpecSections == InitSections /\ [][NextSections]_vars

(***************************************************************************)
(* Reading a file back.                                                    *)
(***************************************************************************)
\* the offsets of the newlines of a content, and the number of its lines
Newlines(content) == {i \in 1..Len(content) : content[i] = "\n"}
NumLines(content) == Cardinality(Newlines(content))

\* the k-th line, without its newline
LineEnd(content, k) ==
    CHOOSE i \in Newlines(content) :
        Cardinality({j \in Newlines(content) : j <= i}) = k
LineStart(content, k) == IF k = 1 THEN 1 ELSE LineEnd(content, k - 1) + 1
Line(content, k) == SubSeq(content, LineStart(content, k), LineEnd(content, k) - 1)

\* the text is one JSON object
IsJsonObject(text) ==
    /\ Len(text) >= 2
    /\ text[1] = "{"
    /\ text[Len(text)] = "}"
    /\ \A i \in 2..(Len(text) - 1) : text[i] \notin {"{", "}", "\n", "\\0"}

HasToken(text, token) == \E i \in 1..Len(text) : text[i] = token

RECURSIVE Flatten(_)
Flatten(texts) == IF texts = <<>> THEN <<>> ELSE Head(texts) \o Flatten(Tail(texts))

HookOps ==
    {"pytest_sessionstart", "pytest_sessionfinish", "pytest_runtest_logreport",
     "pytest_warning_recorded", "pytest_collectreport"}

CallsOf(ev) == {i \in 1..Len(world.calls) : world.calls[i].ev = ev}

(***************************************************************************)
(* C1: with --report-log left at "no.log" and only dataset forwarding      *)
(* enabled, the file sink is a no-op: no file is ever opened, created or   *)
(* written, and no persist operation fails for want of a file.             *)
(***************************************************************************)
OnlyForwarding == option.report_log = NoLog /\ option.dataset

C1_DisabledSinkTouchesNoFile ==
    OnlyForwarding =>
        /\ world.handles = <<>>
        /\ \A n \in FileNames : ~world.files[n].exists
        /\ \A i \in 1..Len(world.calls) : ~world.calls[i].wrote

(***************************************************************************)
(* C2: every event the engine raises reaches each configured sink exactly  *)
(* once: one line in the log file and, with forwarding enabled, one POST   *)
(* at the collector.  The events counted are those every recorder handled  *)
(* without an exception.                                                   *)
(***************************************************************************)
Handled(ev) ==
    /\ CallsOf(ev) # {}
    /\ \A i \in CallsOf(ev) : world.calls[i].err = "none"

C2_EachSinkOncePerEvent ==
    \A ev \in 1..nevents :
        Handled(ev) =>
            /\ Cardinality({i \in CallsOf(ev) : world.calls[i].wrote}) = 1
            /\ option.dataset =>
                   Cardinality({i \in CallsOf(ev) : world.calls[i].posted}) = 1

(***************************************************************************)
(* C3: close() never raises; it changes nothing when the recorder holds    *)
(* no stream; it releases an open stream once, and a later close() is a    *)
(* no-op.                                                                  *)
(***************************************************************************)
ClosedOnce ==
    /\ last.op \in {"close", "pytest_unconfigure"} => last.err = "none"
    /\ \A h \in 1..Len(world.handles) :
         /\ world.handles[h].closes <= 1
         /\ world.handles[h].closed <=> world.handles[h].closes = 1
    /\ \A r \in 1..Len(recorders) :
         recorders[r]._file.ty = "file" => ~world.handles[recorders[r]._file.h].closed

CloseStep ==
    Close =>
        LET r == config._report_log_plugin IN
        /\ last'.err = "none"
        /\ recorders'[r]._file.ty = "none"
        /\ recorders[r]._file.ty = "none" => UNCHANGED <<world, recorders>>
        /\ recorders[r]._file.ty = "file" =>
               /\ world'.handles[recorders[r]._file.h].closed
               /\ world'.handles[recorders[r]._file.h].closes = 1

C3_CloseIsIdempotent == []ClosedOnce /\ [][CloseStep]_vars

C3_SecondClose ==
    /\ last.op = "close"
    /\ ~last.was_open
    /\ last.err = "none"
    /\ \E h \in 1..Len(world.handles) : world.handles[h].closes = 1

(***************************************************************************)
(* C4: no serialization exception leaves persist_data, whatever the        *)
(* record holds.                                                           *)
(***************************************************************************)
C4_NoSerializationErrorEscapes ==
    \A i \in 1..Len(world.calls) : world.calls[i].err \notin {"TypeError", "ValueError"}

(***************************************************************************)
(* C5: the record cleanup_unserializable returns has the keys of its       *)
(* input, in the same order; a field json.dumps encodes on its own keeps   *)
(* its value, and any other field holds str() of its value.                *)
(***************************************************************************)
EncodableAlone(f) == DumpsError(<<f>>) = "none"

C5_SanitizeRepairsOnlyBadFields ==
    (pure.fn = "cleanup_unserializable" /\ pure.res.err = "none") =>
        /\ Len(pure.res.d) = Len(pure.arg)
        /\ \A i \in 1..Len(pure.arg) :
             /\ pure.res.d[i].k = pure.arg[i].k
             /\ pure.res.d[i].kty = pure.arg[i].kty
             /\ EncodableAlone(pure.arg[i]) => pure.res.d[i] = pure.arg[i]
             /\ ~EncodableAlone(pure.arg[i]) =>
                    /\ pure.res.d[i].ty = "str"
                    /\ pure.res.d[i].s = PyStr(pure.arg[i])

C5_OneFieldRepaired ==
    /\ pure.fn = "cleanup_unserializable"
    /\ pure.res.err = "none"
    /\ Len(pure.arg) = 2
    /\ pure.arg[1].ty = "int" /\ pure.arg[1].kty = "str"
    /\ pure.arg[2].ty = "obj" /\ pure.arg[2].kty = "str"
    /\ pure.res.d[1] = pure.arg[1]
    /\ pure.res.d[2].s = "<Obj object>"

(***************************************************************************)
(* C6: a plain-text log file read back holds exactly the lines written     *)
(* through the recorder, one JSON object per record, in the order of the   *)
(* persist operations (stated for the runs in which no persist operation   *)
(* raised).                                                                *)
(***************************************************************************)
FileHoldsWritten(h) ==
    LET content == world.files[h.path].content IN
    /\ NumLines(content) = Len(h.written)
    /\ content = Flatten(h.written)
    /\ \A k \in 1..Len(h.written) : IsJsonObject(Line(content, k))

C6_FileIsTheLinesWritten ==
    (\A i \in 1..Len(world.calls) : world.calls[i].err = "none") =>
        \A r \in 1..Len(recorders) :
            recorders[r]._file.ty = "file" =>
                LET h == world.handles[recorders[r]._file.h] IN
                h.codec = "plain" => FileHoldsWritten(h)

(***************************************************************************)
(* C7: for a recorder with a log file, session start, k test results and   *)
(* session finish complete without error and leave k + 2 lines: the first  *)
(* tagged SessionStart, the last tagged SessionFinish with its exit        *)
(* status, all with one unique_id.                                         *)
(***************************************************************************)
SessionOps == {"pytest_sessionstart", "pytest_runtest_logreport", "pytest_sessionfinish"}

ReportTypeToken(tag) == EncodeField(StrField("$report_type", tag))

SessionLines(content) ==
    /\ NumLines(content) = nevents
    /\ HasToken(Line(content, 1), ReportTypeToken("SessionStart"))
    /\ HasToken(Line(content, nevents), ReportTypeToken("SessionFinish"))
    /\ \E e \in ExitStatuses :
         HasToken(Line(content, nevents), EncodeField(IntField("exitstatus", e)))
    /\ \E r \in 1..Len(recorders) : \A k \in 1..nevents :
         HasToken(Line(content, k), EncodeField(StrField("unique_id", recorders[r]._unique_id)))

C7_SessionLeavesItsLines ==
    ( /\ session = "finished"
      /\ registered # <<>>
      /\ Codec(option.report_log) = "plain"
      /\ PostFailures(world) = 0
      /\ \A i \in 1..Len(world.calls) : world.calls[i].op \in SessionOps ) =>
        /\ \A i \in 1..Len(world.calls) : world.calls[i].err = "none"
        /\ SessionLines(world.files[PathStr(option.report_log)].content)

(***************************************************************************)
(* C8: when the collector answers a POST with a non-2xx status, the        *)
(* persist operation raises the forwarding error, and the record is in     *)
(* the recorder's log stream as one complete line: the line the file       *)
(* holds at the stream's offset once the stream's text has reached it.     *)
(***************************************************************************)
LastOf(seq) == seq[Len(seq)]

\* the file as it reads once the pending text of the handle has reached it
Settled(w, h) == WriteAt(w.files[h.path].content, h.pos, h.pending)

StreamEndsWith(w, h, line) ==
    LET end == h.pos + Len(h.pending) IN
    /\ end >= Len(line)
    /\ SubSeq(Settled(w, h), end - Len(line) + 1, end) = line

ForwardFailureStep ==
    ( /\ Len(world'.posts) > Len(world.posts)
      /\ LastOf(world'.posts).status = "500" ) =>
        LET c == LastOf(world'.calls)
            h == world'.handles[recorders[c.r]._file.h]
            line == LastOf(world'.posts).body \o <<"\n">>
        IN  /\ last'.err = "HTTPError"
            /\ c.err = "HTTPError"
            /\ c.wrote
            /\ IsJsonObject(LastOf(world'.posts).body)
            /\ LastOf(h.written) = line
            /\ StreamEndsWith(world', h, line)

CapturedLogLabels == {"Captured log setup", "Captured log call", "Captured log teardown"}

RECURSIVE WithoutCapturedLogs(_)
WithoutCapturedLogs(secs) ==
    IF secs = <<>> THEN <<>>
    ELSE IF Head(secs) \in CapturedLogLabels THEN WithoutCapturedLogs(Tail(secs))
    ELSE <<Head(secs)>> \o WithoutCapturedLogs(Tail(secs))

IsPassed(report) ==
    \E i \in 1..Len(report) : report[i].k = "outcome" /\ report[i].s = "passed"

ExpectedRecord(report, r) ==
    [i \in 1..Len(report) |->
        IF report[i].k = "sections" /\ option.exclude /\ IsPassed(report)
        THEN [report[i] EXCEPT !.secs = WithoutCapturedLogs(report[i].secs)]
        ELSE report[i]]
    \o <<StrField("unique_id", recorders[r]._unique_id),
         StrField("parser", "pytest-reportlog")>>

C9_OnlyCapturedLogsOfPassedDropped ==
    pure.fn = "pytest_runtest_logreport" =>
        LET content == world.files["out.log"].content IN
        /\ NumLines(content) = 2
        /\ Line(content, 2) = Dumps(ExpectedRecord(pure.arg, 1))

C9_PassedReportStripped ==
    /\ pure.fn = "pytest_runtest_logreport"
    /\ option.exclude
    /\ IsPassed(pure.arg)
    /\ SectionsOf(pure.arg) =
           <<"Captured log setup", "Captured stdout call", "Captured log teardown">>
    /\ HasToken(Line(world.files["out.log"].content, 2),
                EncodeField(SectionsField(<<"Captured stdout call">>)))

(***************************************************************************)
(* C10: once close() has run on a recorder, a persist operation on it is   *)
(* rejected: it raises, appends nothing to the log file and sends nothing  *)
(* to the collector.                                                       *)
(***************************************************************************)
IsClosed(r) == recorders[r]._file.ty = "none"

RejectedAfterClose ==
    /\ \A i \in (Len(world.calls) + 1)..Len(world'.calls) :
         IsClosed(world'.calls[i].r) =>
             /\ world'.calls[i].err # "none"
             /\ ~world'.calls[i].wrote
             /\ ~world'.calls[i].posted
    /\ ( /\ nevents' = nevents + 1
         /\ registered # <<>>
         /\ IsClosed(LastOf(registered)) ) =>
            /\ last'.err # "none"
            /\ world'.files = world.files
            /\ world'.handles = world.handles
            /\ world'.posts = world.posts

C10_NoPersistAfterClose == [][RejectedAfterClose]_vars

C10_PersistOnClosedRecorder ==
    /\ last.op \in HookOps
    /\ last.err = "AttributeError"
    /\ config.has_dataset /\ config.has_url /\ config.has_token
    /\ world.calls # <<>>
    /\ IsClosed(LastOf(world.calls).r)
    /\ \E h \in 1..Len(world.handles) : world.handles[h].closed

(***************************************************************************)
(* C11: a worker of a distributed run (a config that carries workerinput)  *)
(* never constructs or registers a recorder and opens no stream, whatever  *)
(* the log path and the dataset options are.                               *)
(***************************************************************************)
C11_WorkerConstructsNoRecorder ==
    option.workerinput =>
        /\ recorders = <<>>
        /\ registered = <<>>
        /\ world.handles = <<>>

(***************************************************************************)
(* pytest_runtest_logreport with reports that already carry a unique_id or *)
(* a parser field, on a run that writes a log file and may forward.        *)
(***************************************************************************)
StaleId == "stale"

TaggedReports ==
    {ReportDict("passed", <<>>, <<>>),
     ReportDict("passed", <<>>, <<StrField("unique_id", StaleId), StrField("parser", "other")>>),
     ReportDict("failed", <<>>, <<ObjField("parser", "Obj")>>),
     ReportDict("failed", <<>>,
                <<ObjField("user_properties", "Obj"), StrField("unique_id", StaleId)>>)}

InitIdent ==
    /\ Init
    /\ \E p \in {MkPath("out", ".log"), MkPath("out", ".bz2")}, ds \in BOOLEAN :
         option = [DefaultOption EXCEPT !.report_log = p, !.dataset = ds,
                                        !.dataset_url = "https://ds",
                                        !.dataset_token = "tok"]

LogReportTagged ==
    /\ session = "started"
    /\ \E report \in TaggedReports :
         /\ Raise("pytest_runtest_logreport", LogReportData(report), session)
         /\ pure' = [fn |-> "pytest_runtest_logreport", arg |-> report,
                     res |-> NotApplied.res]

NextIdent ==
    \/ pytest_configure
    \/ pytest_sessionstart
    \/ LogReportTagged
    \/ Close
    \/ pytest_unconfigure

SpecIdent == InitIdent /\ [][NextIdent]_vars

(***************************************************************************)
(* C12: every text written to a log stream and every body POSTed carries   *)
(* exactly one unique_id, the one its recorder got at construction, and    *)
(* exactly one parser, "pytest-reportlog", whatever the incoming record    *)
(* held under these keys; no step, close() included, changes the           *)
(* unique_id of a recorder.                                                *)
(***************************************************************************)
UniqueIdTokens ==
    {EncodeField(StrField("unique_id", v)) :
        v \in {StaleId} \cup {recorders[r]._unique_id : r \in 1..Len(recorders)}}

ParserTokens ==
    {EncodeField(StrField("parser", v)) : v \in {"other", "<Obj object>", "pytest-reportlog"}}

Carries(text, r) ==
    /\ HasToken(text, EncodeField(StrField("unique_id", recorders[r]._unique_id)))
    /\ HasToken(text, EncodeField(StrField("parser", "pytest-reportlog")))
    /\ Cardinality({i \in 1..Len(text) : text[i] \in UniqueIdTokens}) = 1
    /\ Cardinality({i \in 1..Len(text) : text[i] \in ParserTokens}) = 1

AnnotatedStep ==
    LET newcalls == SubSeq(world'.calls, Len(world.calls) + 1, Len(world'.calls))
        posting == SelectSeq(newcalls, LAMBDA c : c.posted)
    IN  /\ \A r \in 1..Len(recorders) : recorders'[r]._unique_id = recorders[r]._unique_id
        /\ \A i \in 1..Len(newcalls) :
             newcalls[i].wrote =>
                 LET h == world'.handles[recorders[newcalls[i].r]._file.h] IN
                 /\ LastOf(h.written) # <<>>
                 /\ Carries(SubSeq(LastOf(h.written), 1, Len(LastOf(h.written)) - 1),
                            newcalls[i].r)
        /\ Len(world'.posts) = Len(world.posts) + Len(posting)
        /\ \A k \in 1..Len(posting) :
             Carries(world'.posts[Len(world.posts) + k].body, posting[k].r)

C12_RecordsCarryRunIdAndTag == [][AnnotatedStep]_vars

C12_IncomingIdOverridden ==
    /\ pure.fn = "pytest_runtest_logreport"
    /\ \E i \in 1..Len(pure.arg) : pure.arg[i] = StrField("unique_id", StaleId)
    /\ last.op = "pytest_runtest_logreport"
    /\ last.err = "none"
    /\ world.posts # <<>>
    /\ ~HasToken(LastOf(world.posts).body, EncodeField(StrField("unique_id", StaleId)))
    /\ HasToken(LastOf(world.posts).body,
                EncodeField(StrField("unique_id", recorders[1]._unique_id)))
    /\ recorders[1]._file.ty = "file"
    /\ HasToken(LastOf(world.handles[recorders[1]._file.h].written),
                EncodeField(StrField("unique_id", recorders[1]._unique_id)))
    /\ ~HasToken(LastOf(world.handles[recorders[1]._file.h].written),
                 EncodeField(StrField("unique_id", StaleId)))

(***************************************************************************)
(* C13: a persist operation POSTs only when dataset forwarding is enabled; *)
(* in a run with a log file and forwarding not enabled, every persist      *)
(* operation on an open recorder whose record serializes writes its line,  *)
(* makes no POST and returns without an exception.                         *)
(***************************************************************************)
SerializationErrors == {"TypeError", "ValueError"}

NoStreamClosed == \A h \in 1..Len(world.handles) : ~world.handles[h].closed

C13_ForwardOnlyWhenEnabled ==
    /\ world.posts # <<>> => option.dataset
    /\ (~option.dataset /\ NoStreamClosed) =>
           \A i \in 1..Len(world.calls) :
               world.calls[i].err \notin SerializationErrors =>
                   /\ world.calls[i].wrote
                   /\ ~world.calls[i].posted
                   /\ world.calls[i].err = "none"

(***************************************************************************)
(* The hooks on a run with a log file and dataset forwarding, on a device  *)
(* that may run out of space.                                              *)
(***************************************************************************)
InitIO ==
    /\ Init
    /\ \E p \in {MkPath("out", ".log"), MkPath("out", ".bz2")}, worker \in BOOLEAN :
         option = [DefaultOption EXCEPT !.report_log = p, !.dataset = TRUE,
                                        !.dataset_url = "https://ds",
                                        !.dataset_token = "tok",
                                        !.workerinput = worker]

\* the device the log file is on has no space left
DiskFull ==
    /\ phase = "configured"
    /\ ~world.full
    /\ world' = [world EXCEPT !.full = TRUE]
    /\ UNCHANGED <<option, config, registered, recorders, clock, phase, session,
                   nevents, last, pure>>

NextIO ==
    \/ pytest_configure
    \/ DiskFull
    \/ pytest_sessionstart
    \/ pytest_collectreport
    \/ pytest_warning_recorded
    \/ pytest_sessionfinish

SpecIO == InitIO /\ [][NextIO]_vars

(***************************************************************************)
(* C14: with a log file and dataset forwarding both configured, every      *)
(* persist operation whose record serializes attempts the write and        *)
(* attempts the POST, the failure of one not preventing the other.         *)
(***************************************************************************)
BothConfigured ==
    /\ registered # <<>>
    /\ config.has_dataset /\ config._report_log_dataset
    /\ config.has_url /\ config.has_token

C14_BothSinksAttempted ==
    (BothConfigured /\ NoStreamClosed) =>
        \A i \in 1..Len(world.calls) :
            world.calls[i].err \notin SerializationErrors =>
                /\ world.calls[i].wrote \/ world.calls[i].err = "OSError"
                /\ world.calls[i].posted

(***************************************************************************)
(* C15: each call of send_report_to_dataset makes one POST, of one record, *)
(* whether it succeeds or fails: for every recorder the POSTs that carry   *)
(* its unique_id are as many as its persist operations that reached the    *)
(* forwarding call, and each failed POST ended one persist operation.      *)
(***************************************************************************)
ForwardErrors == {"HTTPError", "ConnectionError"}

PostsOf(r) ==
    {j \in 1..Len(world.posts) :
        HasToken(world.posts[j].body,
                 EncodeField(StrField("unique_id", recorders[r]._unique_id)))}

ForwardingCalls(r) ==
    {i \in 1..Len(world.calls) : world.calls[i].r = r /\ world.calls[i].posted}

C15_OnePostPerForward ==
    /\ Len(world.posts) =
           Cardinality({i \in 1..Len(world.calls) : world.calls[i].posted})
    /\ \A r \in 1..Len(recorders) :
           Cardinality(PostsOf(r)) = Cardinality(ForwardingCalls(r))
    /\ \A j \in 1..Len(world.posts) : IsJsonObject(world.posts[j].body)
    /\ Cardinality({j \in 1..Len(world.posts) : world.posts[j].status # "200"}) =
           Cardinality({i \in 1..Len(world.calls) : world.calls[i].err \in ForwardErrors})

C15_FailedPostNotRepeated ==
    /\ Len(world.posts) >= 2
    /\ world.posts[1].status = "500"
    /\ LastOf(world.posts).status = "200"
    /\ Cardinality(PostsOf(LastOf(registered))) = 2

(***************************************************************************)
(* C16: after pytest_unconfigure has returned, every stream that           *)
(* pytest_configure opened is closed and no recorder holds a stream.       *)
(***************************************************************************)
C16_TeardownClosesEveryStream ==
    phase = "unconfigured" =>
        /\ \A h \in 1..Len(world.handles) : world.handles[h].closed
        /\ \A r \in 1..Len(recorders) : recorders[r]._file.ty = "none"

(***************************************************************************)
(* C17: at most one recorder holds an open stream on a log file path, and  *)
(* the texts a file received all came through one recorder.                *)
(***************************************************************************)
OpenOn(path) ==
    {r \in 1..Len(recorders) :
        /\ recorders[r]._file.ty = "file"
        /\ ~world.handles[recorders[r]._file.h].closed
        /\ world.handles[recorders[r]._file.h].path = path}

WritersOf(path) ==
    {h \in 1..Len(world.handles) :
        world.handles[h].path = path /\ world.handles[h].written # <<>>}

C17_OneOpenStreamPerPath ==
    \A path \in FileNames :
        /\ Cardinality(OpenOn(path)) <= 1
        /\ Cardinality(WritersOf(path)) <= 1

(***************************************************************************)
(* C18: each text written to a log stream is one JSON object followed by a *)
(* newline, and when a persist operation has ended no text written to an   *)
(* open stream is still buffered: all of it has reached the file.          *)
(***************************************************************************)
IsJsonLine(text) ==
    /\ text # <<>>
    /\ LastOf(text) = "\n"
    /\ IsJsonObject(SubSeq(text, 1, Len(text) - 1))

C18_EveryLineFlushed ==
    \A h \in 1..Len(world.handles) :
        /\ \A k \in 1..Len(world.handles[h].written) : IsJsonLine(world.handles[h].written[k])
        /\ ~world.handles[h].closed => world.handles[h].pending = <<>>

(***************************************************************************)
(* C19: every record POSTed to the collector is a line of the log file:    *)
(* the file of the run holds, as one of its lines, the body of each POST   *)
(* made so far.                                                            *)
(***************************************************************************)
InFile(content, text) == \E k \in 1..NumLines(content) : Line(content, k) = text

C19_ForwardedRecordsAreInFile ==
    \A j \in 1..Len(world.posts) :
        InFile(world.files[PathStr(option.report_log)].content, world.posts[j].body)

(***************************************************************************)
(* C20: a persist operation that the serialization of its record ends      *)
(* (json.dumps raises an exception the guard does not catch, or raises     *)
(* again after the sanitizer's repair) has written nothing to any stream   *)
(* or file and has made no POST.                                           *)
(***************************************************************************)
SerializationFailureStep ==
    LET newcalls == SubSeq(world'.calls, Len(world.calls) + 1, Len(world'.calls)) IN
    /\ \A i \in 1..Len(newcalls) :
         newcalls[i].err \in SerializationErrors =>
             ~newcalls[i].wrote /\ ~newcalls[i].posted
    /\ (Len(newcalls) = 1 /\ newcalls[1].err \in SerializationErrors) =>
           /\ last'.err = newcalls[1].err
           /\ world'.files = world.files
           /\ world'.handles = world.handles
           /\ world'.posts = world.posts

C20_FailedSerializationTouchesNoSink == [][SerializationFailureStep]_vars

C20_FailedAfterRepair ==
    /\ last.op = "pytest_runtest_logreport"
    /\ last.err = "TypeError"
    /\ BothConfigured
    /\ Len(world.calls) = 3
    /\ LastOf(world.calls).err = "TypeError"
    /\ NumLines(world.files["out.log"].content) = 1
    /\ Len(world.posts) = 2
    /\ \A h \in 1..Len(world.handles) :
         ~world.handles[h].closed /\ Len(world.handles[h].written) = 1

====
